---- MODULE Spec2Model ----
(***************************************************************************)
(* Model of helix-term/src/ui/fidget.rs: the LSP progress panel.           *)
(*                                                                         *)
(* Producers call Fidget::create / update / end_progress, each of which    *)
(* sends one FidgetMessage over a std::sync::mpsc channel.  The single     *)
(* consumer, FidgetWidget::render, calls FidgetWidget::update, which takes *)
(* at most one message with try_recv and applies it to the Provider with   *)
(* the message's id, and then writes the lines of all Providers.           *)
(***************************************************************************)
EXTENDS Integers, Sequences, FiniteSets, TLC

\* ------------------------------------------------------------------------
\* Bounds of the model
\* ------------------------------------------------------------------------
\* total number of successful sends in a behaviour
MaxSends == 4
\* number of messages pending in the channel at any time
MaxInbox == 2

\* ------------------------------------------------------------------------
\* Values
\* ------------------------------------------------------------------------
\* Option<T>
None == <<>>
Some(x) == <<x>>

\* lsp::ProgressToken = NumberOrString
TokNumber(n) == [kind |-> "Number", v |-> n]
TokString(s) == [kind |-> "String", v |-> s]

\* lsp::WorkDoneProgress
Begin(title, message, percentage) ==
    [kind |-> "Begin", title |-> title, message |-> message, percentage |-> percentage]
Report(message, percentage) ==
    [kind |-> "Report", message |-> message, percentage |-> percentage]
End(message) ==
    [kind |-> "End", message |-> message]

\* ProgressStatus
Created == [tag |-> "Created"]
Started(progress) == [tag |-> "Started", progress |-> progress]

\* The arguments the producers call the Fidget with.  A producer is a
\* language server and sends under its own id, so the events of producer p
\* are the messages with id p; any interleaving of the producers' calls is
\* a behaviour.
Ids == {1, 2}
Tokens == {TokString("a"), TokNumber(7)}
Statuses == {Begin("Build", None, Some(0)), Report(Some("x"), None), End(None)}
LastMessages == {End(None)}

\* ------------------------------------------------------------------------
\* State
\* ------------------------------------------------------------------------
VARIABLES
    inbox,      \* the channel: messages sent and not yet received, oldest first
    rxAlive,    \* the FidgetWidget (and with it the Receiver) has not been dropped
    active,     \* FidgetWidget.active : Vec<Provider>
    frame,      \* the lines written by the last render
    outcome,    \* what the last FidgetWidget::update did
    panicked,   \* a send(..).unwrap() has panicked
    nsent,      \* history: number of messages enqueued
    nrecv,      \* history: number of messages received
    lastRecv,   \* history: per id, the enqueue number of the last message received
    scen        \* history: how far the received events have followed Scenario

vars == <<inbox, rxAlive, active, frame, outcome, panicked, nsent, nrecv, lastRecv, scen>>

\* ------------------------------------------------------------------------
\* format_progress
\* ------------------------------------------------------------------------
TokenDisplay(token) ==
    IF token.kind = "Number" THEN ToString(token.v) ELSE token.v

\* variant: with a title, no message and a percentage, the title is written
\* before the percentage
format_progress_title_first(token, title, msg, percentage) ==
    LET tok == TokenDisplay(token) IN
    CASE title # None /\ msg # None /\ percentage # None ->
            "[" \o tok \o "] " \o ToString(percentage[1]) \o "% " \o title[1] \o " - " \o msg[1]
      [] title # None /\ msg = None /\ percentage # None ->
            "[" \o tok \o "] " \o title[1] \o " " \o ToString(percentage[1]) \o "%"
      [] title # None /\ msg # None /\ percentage = None ->
            "[" \o tok \o "] " \o title[1] \o " - " \o msg[1]
      [] title = None /\ msg # None /\ percentage # None ->
            "[" \o tok \o "] " \o ToString(percentage[1]) \o "% " \o msg[1]
      [] title # None /\ msg = None /\ percentage = None ->
            "[" \o tok \o "] " \o title[1]
      [] title = None /\ msg # None /\ percentage = None ->
            "[" \o tok \o "] " \o msg[1]
      [] title = None /\ msg = None /\ percentage # None ->
            "[" \o tok \o "] " \o ToString(percentage[1]) \o "%"
      [] title = None /\ msg = None /\ percentage = None ->
            "[" \o tok \o "]"

format_progress(token, title, msg, percentage) ==
    LET tok == TokenDisplay(token) IN
    CASE title # None /\ msg # None /\ percentage # None ->
            "[" \o tok \o "] " \o ToString(percentage[1]) \o "% " \o title[1] \o " - " \o msg[1]
      [] title # None /\ msg = None /\ percentage # None ->
            "[" \o tok \o "] " \o ToString(percentage[1]) \o "% " \o title[1]
      [] title # None /\ msg # None /\ percentage = None ->
            "[" \o tok \o "] " \o title[1] \o " - " \o msg[1]
      [] title = None /\ msg # None /\ percentage # None ->
            "[" \o tok \o "] " \o ToString(percentage[1]) \o "% " \o msg[1]
      [] title # None /\ msg = None /\ percentage = None ->
            "[" \o tok \o "] " \o title[1]
      [] title = None /\ msg # None /\ percentage = None ->
            "[" \o tok \o "] " \o msg[1]
      [] title = None /\ msg = None /\ percentage # None ->
            "[" \o tok \o "] " \o ToString(percentage[1]) \o "%"
      [] title = None /\ msg = None /\ percentage = None ->
            "[" \o tok \o "]"

\* ------------------------------------------------------------------------
\* Item
\* ------------------------------------------------------------------------
NewItem(token) ==
    [token |-> token, title |-> None, line |-> None, finished |-> FALSE]

\* variant: End does not mark the Item finished
Item_update_no_finish(item, progress) ==
    LET title == IF progress.kind = "Begin" THEN Some(progress.title) ELSE item.title
        msg == progress.message
        percentage == IF progress.kind = "End" THEN None ELSE progress.percentage
    IN  [token |-> item.token,
         title |-> title,
         line |-> Some(format_progress(item.token, title, msg, percentage)),
         finished |-> item.finished]

\* variant: the line is formatted before Begin's title is stored
Item_update_stale_title(item, progress) ==
    LET title == IF progress.kind = "Begin" THEN Some(progress.title) ELSE item.title
        finished == IF progress.kind = "End" THEN TRUE ELSE item.finished
        msg == progress.message
        percentage == IF progress.kind = "End" THEN None ELSE progress.percentage
    IN  [token |-> item.token,
         title |-> title,
         line |-> Some(format_progress(item.token, item.title, msg, percentage)),
         finished |-> finished]

\* variant: End marks the Item finished and leaves its line as it is
Item_update_end_keeps_line(item, progress) ==
    LET title == IF progress.kind = "Begin" THEN Some(progress.title) ELSE item.title
        finished == IF progress.kind = "End" THEN TRUE ELSE item.finished
        msg == progress.message
        percentage == IF progress.kind = "End" THEN None ELSE progress.percentage
    IN  [token |-> item.token,
         title |-> title,
         line |-> IF progress.kind = "End" THEN item.line
                  ELSE Some(format_progress(item.token, title, msg, percentage)),
         finished |-> finished]

Item_update(item, progress) ==
    LET title == IF progress.kind = "Begin" THEN Some(progress.title) ELSE item.title
        finished == IF progress.kind = "End" THEN TRUE ELSE item.finished
        msg == progress.message
        percentage == IF progress.kind = "End" THEN None ELSE progress.percentage
    IN  [token |-> item.token,
         title |-> title,
         line |-> Some(format_progress(item.token, title, msg, percentage)),
         finished |-> finished]

\* ------------------------------------------------------------------------
\* Provider
\* ------------------------------------------------------------------------
\* variant: nothing is evicted
Retain_all(state) == state

\* self.state.retain(|item| item.finished == false)
Retain(state) == SelectSeq(state, LAMBDA item : item.finished = FALSE)

\* self.state.iter_mut().find(|item| item.token == *token): index of the
\* first match, 0 when there is none
\* variant: the search returns the last Item with the token
FindItem_last(state, token) ==
    LET S == {i \in 1..Len(state) : state[i].token = token}
    IN  IF S = {} THEN 0 ELSE CHOOSE i \in S : \A j \in S : i >= j

FindItem(state, token) ==
    LET S == {i \in 1..Len(state) : state[i].token = token}
    IN  IF S = {} THEN 0 ELSE CHOOSE i \in S : \A j \in S : i <= j

\* variant: a Started event for an unknown token creates the Item
Provider_update_upsert(p, token, progress) ==
    LET kept == Retain(p.state) IN
    IF progress.tag = "Created"
    THEN [provider |-> [id |-> p.id, state |-> Append(kept, NewItem(token))],
          warned |-> FALSE]
    ELSE LET i == FindItem(kept, token) IN
         IF i # 0
         THEN [provider |-> [id |-> p.id,
                             state |-> [kept EXCEPT ![i] = Item_update(kept[i], progress.progress)]],
               warned |-> FALSE]
         ELSE [provider |-> [id |-> p.id,
                             state |-> Append(kept, Item_update(NewItem(token), progress.progress))],
               warned |-> FALSE]

\* variant: Created does not append when an Item with the token is there
Provider_update_dedup(p, token, progress) ==
    LET kept == Retain(p.state) IN
    IF progress.tag = "Created"
    THEN [provider |-> [id |-> p.id,
                        state |-> IF FindItem(kept, token) # 0 THEN kept
                                  ELSE Append(kept, NewItem(token))],
          warned |-> FALSE]
    ELSE LET i == FindItem(kept, token) IN
         IF i # 0
         THEN [provider |-> [id |-> p.id,
                             state |-> [kept EXCEPT ![i] = Item_update(kept[i], progress.progress)]],
               warned |-> FALSE]
         ELSE [provider |-> [id |-> p.id, state |-> kept],
               warned |-> TRUE]

\* variant: the finished Items are evicted by Created events only
Provider_update_evict_on_create(p, token, progress) ==
    IF progress.tag = "Created"
    THEN [provider |-> [id |-> p.id, state |-> Append(Retain(p.state), NewItem(token))],
          warned |-> FALSE]
    ELSE LET i == FindItem(p.state, token) IN
         IF i # 0
         THEN [provider |-> [id |-> p.id,
                             state |-> [p.state EXCEPT
                                          ![i] = Item_update(p.state[i], progress.progress)]],
               warned |-> FALSE]
         ELSE [provider |-> [id |-> p.id, state |-> p.state],
               warned |-> TRUE]

\* the Provider after the call, and whether the warning was logged
Provider_update(p, token, progress) ==
    LET kept == Retain(p.state) IN
    IF progress.tag = "Created"
    THEN [provider |-> [id |-> p.id, state |-> Append(kept, NewItem(token))],
          warned |-> FALSE]
    ELSE LET i == FindItem(kept, token) IN
         IF i # 0
         THEN [provider |-> [id |-> p.id,
                             state |-> [kept EXCEPT ![i] = Item_update(kept[i], progress.progress)]],
               warned |-> FALSE]
         ELSE [provider |-> [id |-> p.id, state |-> kept],
               warned |-> TRUE]

\* ------------------------------------------------------------------------
\* The channel
\* ------------------------------------------------------------------------
\* Sender::send on a connected channel
send(queue, msg) == Append(queue, msg)

\* variant: the newest pending message is received first
try_recv_lifo(queue) ==
    IF queue = <<>>
    THEN [ok |-> FALSE, queue |-> queue]
    ELSE [ok |-> TRUE, msg |-> queue[Len(queue)], queue |-> SubSeq(queue, 1, Len(queue) - 1)]

\* variant: the oldest pending message is read and left in the channel
try_recv_peek(queue) ==
    IF queue = <<>>
    THEN [ok |-> FALSE, queue |-> queue]
    ELSE [ok |-> TRUE, msg |-> Head(queue), queue |-> queue]

\* Receiver::try_recv
try_recv(queue) ==
    IF queue = <<>>
    THEN [ok |-> FALSE, queue |-> queue]
    ELSE [ok |-> TRUE, msg |-> Head(queue), queue |-> Tail(queue)]

\* ------------------------------------------------------------------------
\* FidgetWidget
\* ------------------------------------------------------------------------
\* variant: the lookup never finds the Provider
FindProvider_never(providers, id) == 0

\* self.active.iter_mut().find(|p| p.id == msg.id)
FindProvider(providers, id) ==
    LET S == {i \in 1..Len(providers) : providers[i].id = id}
    IN  IF S = {} THEN 0 ELSE CHOOSE i \in S : \A j \in S : i <= j

\* variant: a new Provider is kept only when the event was not dropped
Dispatch_skip_empty(providers, msg) ==
    LET i == FindProvider(providers, msg.id) IN
    IF i # 0
    THEN LET r == Provider_update(providers[i], msg.token, msg.progress)
         IN  [active |-> [providers EXCEPT ![i] = r.provider], warned |-> r.warned]
    ELSE LET r == Provider_update([id |-> msg.id, state |-> <<>>], msg.token, msg.progress)
         IN  [active |-> IF r.warned THEN providers ELSE Append(providers, r.provider),
              warned |-> r.warned]

\* variant: the Provider that received the event is moved to the end
Dispatch_move_to_end(providers, msg) ==
    LET i == FindProvider(providers, msg.id) IN
    IF i # 0
    THEN LET r == Provider_update(providers[i], msg.token, msg.progress)
         IN  [active |-> Append(SubSeq(providers, 1, i - 1)
                                  \o SubSeq(providers, i + 1, Len(providers)),
                                r.provider),
              warned |-> r.warned]
    ELSE LET r == Provider_update([id |-> msg.id, state |-> <<>>], msg.token, msg.progress)
         IN  [active |-> Append(providers, r.provider), warned |-> r.warned]

\* the providers after one message has been applied, and whether it warned
Dispatch(providers, msg) ==
    LET i == FindProvider(providers, msg.id) IN
    IF i # 0
    THEN LET r == Provider_update(providers[i], msg.token, msg.progress)
         IN  [active |-> [providers EXCEPT ![i] = r.provider], warned |-> r.warned]
    ELSE LET r == Provider_update([id |-> msg.id, state |-> <<>>], msg.token, msg.progress)
         IN  [active |-> Append(providers, r.provider), warned |-> r.warned]

\* The scenario of create, Begin and End of one operation of provider 1,
\* and the monitor that follows it through the events received: scen is the
\* number of its events applied so far when they are all that provider 1
\* has been sent, 4 once one more event for provider 1 has been applied
\* after the three, and -1 when provider 1's events are any others.
Scenario ==
    << [id |-> 1, token |-> TokString("a"), progress |-> Created],
       [id |-> 1, token |-> TokString("a"),
        progress |-> Started(Begin("Build", None, Some(0)))],
       [id |-> 1, token |-> TokString("a"), progress |-> Started(End(None))] >>

ScenNext(s, msg) ==
    IF msg.id # 1 THEN s
    ELSE IF s \in 0..2
         THEN IF msg.token = Scenario[s + 1].token /\ msg.progress = Scenario[s + 1].progress
              THEN s + 1 ELSE -1
         ELSE IF s = 3 THEN 4 ELSE -1

\* variant: a second message is received in the same call when one is pending
FidgetWidget_update_twice ==
    LET r == try_recv(inbox) IN
    IF r.ok
    THEN LET d == Dispatch(active, r.msg)
             r2 == try_recv(r.queue)
         IN  IF r2.ok
             THEN LET d2 == Dispatch(d.active, r2.msg) IN
                  /\ inbox' = r2.queue
                  /\ active' = d2.active
                  /\ outcome' = IF d2.warned THEN "unregistered"
                                ELSE IF r2.msg.progress.tag = "Created" THEN "created"
                                ELSE "updated"
                  /\ nrecv' = nrecv + 2
                  /\ lastRecv' = [lastRecv EXCEPT ![r.msg.id] = r.msg.seq,
                                                  ![r2.msg.id] = r2.msg.seq]
                  /\ scen' = ScenNext(ScenNext(scen, r.msg), r2.msg)
             ELSE /\ inbox' = r.queue
                  /\ active' = d.active
                  /\ outcome' = IF d.warned THEN "unregistered"
                                ELSE IF r.msg.progress.tag = "Created" THEN "created"
                                ELSE "updated"
                  /\ nrecv' = nrecv + 1
                  /\ lastRecv' = [lastRecv EXCEPT ![r.msg.id] = r.msg.seq]
                  /\ scen' = ScenNext(scen, r.msg)
    ELSE /\ outcome' = "empty"
         /\ UNCHANGED <<inbox, active, nrecv, lastRecv, scen>>

FidgetWidget_update ==
    LET r == try_recv(inbox) IN
    IF r.ok
    THEN LET d == Dispatch(active, r.msg) IN
         /\ inbox' = r.queue
         /\ active' = d.active
         /\ outcome' = IF d.warned THEN "unregistered"
                       ELSE IF r.msg.progress.tag = "Created" THEN "created"
                       ELSE "updated"
         /\ nrecv' = nrecv + 1
         /\ lastRecv' = [lastRecv EXCEPT ![r.msg.id] = r.msg.seq]
         /\ scen' = ScenNext(scen, r.msg)
    ELSE /\ outcome' = "empty"
         /\ UNCHANGED <<inbox, active, nrecv, lastRecv, scen>>

RECURSIVE ItemLines(_)
ItemLines(state) ==
    IF state = <<>> THEN <<>>
    ELSE LET item == state[Len(state)] IN
         (IF item.line # None THEN <<item.line[1]>> ELSE <<>>)
            \o ItemLines(SubSeq(state, 1, Len(state) - 1))

\* variant: the Providers are written in insertion order
RECURSIVE to_render_forward(_)
to_render_forward(providers) ==
    IF providers = <<>> THEN <<>>
    ELSE LET p == providers[1] IN
         <<"id: " \o ToString(p.id)>> \o ItemLines(p.state)
            \o to_render_forward(SubSeq(providers, 2, Len(providers)))

RECURSIVE to_render(_)
to_render(providers) ==
    IF providers = <<>> THEN <<>>
    ELSE LET p == providers[Len(providers)] IN
         <<"id: " \o ToString(p.id)>> \o ItemLines(p.state)
            \o to_render(SubSeq(providers, 1, Len(providers) - 1))

\* ------------------------------------------------------------------------
\* Init: fidget_and_widget()
\* ------------------------------------------------------------------------
Init ==
    /\ inbox = <<>>
    /\ rxAlive = TRUE
    /\ active = <<>>
    /\ frame = <<>>
    /\ outcome = "none"
    /\ panicked = FALSE
    /\ nsent = 0
    /\ nrecv = 0
    /\ lastRecv = [id \in Ids |-> 0]
    /\ scen = 0

\* ------------------------------------------------------------------------
\* Actions
\* ------------------------------------------------------------------------
\* variant: the channel holds one message and send waits for room
SendUnwrap_rendezvous(id, token, progress) ==
    /\ ~panicked
    /\ IF rxAlive
       THEN /\ nsent < MaxSends
            /\ Len(inbox) < 1
            /\ inbox' = send(inbox, [id |-> id, token |-> token, progress |-> progress,
                                     seq |-> nsent + 1])
            /\ nsent' = nsent + 1
            /\ UNCHANGED panicked
       ELSE /\ panicked' = TRUE
            /\ UNCHANGED <<inbox, nsent>>
    /\ UNCHANGED <<rxAlive, active, frame, outcome, nrecv, lastRecv, scen>>

\* self.tx.send(FidgetMessage {..}).unwrap(): the message is appended to the
\* channel, or, when the Receiver is gone, send returns Err and unwrap
\* panics.  seq is the history stamp of the message: its enqueue number.
SendUnwrap(id, token, progress) ==
    /\ ~panicked
    /\ IF rxAlive
       THEN /\ nsent < MaxSends
            /\ Len(inbox) < MaxInbox
            /\ inbox' = send(inbox, [id |-> id, token |-> token, progress |-> progress,
                                     seq |-> nsent + 1])
            /\ nsent' = nsent + 1
            /\ UNCHANGED panicked
       ELSE /\ panicked' = TRUE
            /\ UNCHANGED <<inbox, nsent>>
    /\ UNCHANGED <<rxAlive, active, frame, outcome, nrecv, lastRecv, scen>>

Fidget_create ==
    \E id \in Ids, token \in Tokens :
        SendUnwrap(id, token, Created)

Fidget_end_progress ==
    \E id \in Ids, token \in Tokens, last_message \in LastMessages :
        SendUnwrap(id, token, Started(last_message))

Fidget_update ==
    \E id \in Ids, token \in Tokens, status \in Statuses :
        SendUnwrap(id, token, Started(status))

render ==
    /\ ~panicked
    /\ rxAlive
    /\ FidgetWidget_update
    /\ frame' = to_render(active')
    /\ UNCHANGED <<rxAlive, panicked, nsent>>

\* the compositor drops the FidgetWidget: the Receiver goes with it and the
\* messages still in the channel are discarded
DropWidget ==
    /\ ~panicked
    /\ rxAlive
    /\ rxAlive' = FALSE
    /\ inbox' = <<>>
    /\ UNCHANGED <<active, frame, outcome, panicked, nsent, nrecv, lastRecv, scen>>

Next ==
    \/ Fidget_create
    \/ Fidget_end_progress
    \/ Fidget_update
    \/ render
    \/ DropWidget

Spec == Init /\ [][Next]_vars

\* ------------------------------------------------------------------------
\* The formatter on all its cases: the widget holds one Item of provider 1,
\* with or without a title, and one Started event for it is pending, with
\* or without a message and a percentage.  The Item is the one that
\* create, and update with a Begin for the title, have left.
\* ------------------------------------------------------------------------
FmtTokens == {TokString("t1"), TokNumber(7)}
FmtTitles == {None, Some("Indexing")}
FmtMessages == {None, Some("x")}
FmtPercentages == {None, Some(42)}

FmtEvents ==
    {Begin("Indexing", m, p) : m \in FmtMessages, p \in FmtPercentages}
      \cup {Report(m, p) : m \in FmtMessages, p \in FmtPercentages}
      \cup {End(m) : m \in FmtMessages}

InitFmt ==
    \E token \in FmtTokens, title \in FmtTitles, status \in FmtEvents :
        LET item == IF title = None THEN NewItem(token)
                    ELSE Item_update(NewItem(token), Begin(title[1], None, None))
            n == IF title = None THEN 1 ELSE 2
        IN  /\ active = << [id |-> 1, state |-> <<item>>] >>
            /\ inbox = << [id |-> 1, token |-> token, progress |-> Started(status),
                           seq |-> n + 1] >>
            /\ rxAlive = TRUE
            /\ frame = to_render(active)
            /\ outcome = IF title = None THEN "created" ELSE "updated"
            /\ panicked = FALSE
            /\ nsent = n + 1
            /\ nrecv = n
            /\ lastRecv = [id \in Ids |-> IF id = 1 THEN n ELSE 0]
            /\ scen = -1

SpecFmt == InitFmt /\ [][Next]_vars

\* ------------------------------------------------------------------------
\* The render cycle: render is called again and again while the widget
\* lives.  Whether a message is ever received does not depend on what it
\* carries, so the producers here send for one token only, and create,
\* Begin and End only.
\* ------------------------------------------------------------------------
LiveTokens == {TokString("a")}
LiveStatuses == {Begin("Build", None, Some(0))}

LiveCreate ==
    \E id \in Ids, token \in LiveTokens :
        SendUnwrap(id, token, Created)

LiveEndProgress ==
    \E id \in Ids, token \in LiveTokens, last_message \in LastMessages :
        SendUnwrap(id, token, Started(last_message))

LiveUpdate ==
    \E id \in Ids, token \in LiveTokens, status \in LiveStatuses :
        SendUnwrap(id, token, Started(status))

NextLive ==
    \/ LiveCreate
    \/ LiveEndProgress
    \/ LiveUpdate
    \/ render
    \/ DropWidget

SpecLive == Init /\ [][NextLive]_vars /\ WF_vars(render)

TypeOK ==
    /\ rxAlive \in BOOLEAN
    /\ panicked \in BOOLEAN
    /\ outcome \in {"none", "empty", "created", "updated", "unregistered"}
    /\ nsent \in 0..MaxSends
    /\ nrecv \in 0..MaxSends
    /\ Len(inbox) <= MaxInbox
    /\ \A i \in 1..Len(active) : active[i].id \in Ids
    /\ scen \in -1..4

\* ------------------------------------------------------------------------
\* Vocabulary of the properties
\* ------------------------------------------------------------------------
\* the items of a sequence that are not finished, in order
Unfinished(state) == SelectSeq(state, LAMBDA item : ~item.finished)

\* the positions of the finished items of a sequence
FinishedAt(state) == {j \in 1..Len(state) : state[j].finished}

\* this step is a render that received the message m, the oldest pending one
Received(m) ==
    /\ inbox # <<>>
    /\ m = Head(inbox)
    /\ nrecv' = nrecv + 1
    /\ lastRecv'[m.id] = m.seq

\* this step is a render that received a message addressed to provider id
Hit(id) == nrecv' = nrecv + 1 /\ lastRecv'[id] # lastRecv[id]

\* this step is a call of render (the only operation that leaves the number
\* of sends, the panic flag and the widget's existence alone)
RenderStep == nsent' = nsent /\ panicked' = panicked /\ rxAlive' = rxAlive

\* the lines of a frame, as a set
FrameLines == {frame[k] : k \in 1..Len(frame)}

\* ------------------------------------------------------------------------
\* C1: the k-th message received is the k-th message enqueued (so each
\* producer's messages arrive in the order it sent them, whatever the other
\* producers do), and while the widget lives every enqueued message is
\* either received or pending, in enqueue order: nothing is lost,
\* duplicated or reordered.
\* ------------------------------------------------------------------------
C1_PendingInOrder ==
    rxAlive =>
        /\ nrecv + Len(inbox) = nsent
        /\ \A i \in 1..Len(inbox) : inbox[i].seq = nrecv + i

C1_ReceiveInOrder ==
    nrecv' # nrecv =>
        /\ nrecv' = nrecv + 1
        /\ \E p \in Ids :
              /\ lastRecv'[p] = nrecv'
              /\ lastRecv'[p] > lastRecv[p]
              /\ \A q \in Ids \ {p} : lastRecv'[q] = lastRecv[q]

C1_Fifo == [](C1_PendingInOrder) /\ [][C1_ReceiveInOrder]_vars

\* two producers' sends interleaved (1, 2, 1) and all three were received
C1_Witness ==
    /\ nrecv = 3
    /\ lastRecv[1] = 3
    /\ lastRecv[2] = 2

\* ------------------------------------------------------------------------
\* C2: a render takes at most one message out of the inbox and applies at
\* most one event; with an empty inbox it leaves the inbox and the
\* providers as they are.
\* ------------------------------------------------------------------------
C2_Step ==
    RenderStep =>
        /\ Len(inbox') >= Len(inbox) - 1
        /\ nrecv' <= nrecv + 1
        /\ nrecv' - nrecv = Len(inbox) - Len(inbox')
        /\ (inbox = <<>> => UNCHANGED <<inbox, active>>)
        /\ (nrecv' = nrecv => UNCHANGED <<inbox, active>>)

C2_AtMostOne == [][C2_Step]_vars

\* a render took one message and left the other one pending
C2_Witness ==
    /\ outcome \in {"created", "updated", "unregistered"}
    /\ nrecv = 1
    /\ nsent = 2
    /\ Len(inbox) = 1

\* ------------------------------------------------------------------------
\* C3: a finished Item leaves its Provider only when an event addressed to
\* that Provider is applied, and then it does leave: across every other
\* step the Provider is unchanged and the Item's line stays in the frame;
\* after an event for its Provider, the Provider holds the Items that were
\* unfinished (one of them possibly updated) and at most one new Item.
\* ------------------------------------------------------------------------
C3_Step ==
    \A i \in 1..Len(active) :
        FinishedAt(active[i].state) # {} =>
            /\ i <= Len(active')
            /\ active'[i].id = active[i].id
            /\ IF Hit(active[i].id)
               THEN LET kept == Unfinished(active[i].state)
                        new == active'[i].state
                    IN  /\ Len(new) \in {Len(kept), Len(kept) + 1}
                        /\ \A j \in 1..Len(kept) : new[j].token = kept[j].token
                        /\ Len(new) = Len(kept) + 1 => ~new[Len(new)].finished
                        /\ Cardinality(FinishedAt(new)) <= 1
               ELSE active'[i].state = active[i].state

C3_Rendered ==
    \A i \in 1..Len(active) : \A j \in FinishedAt(active[i].state) :
        /\ active[i].state[j].line # None
        /\ active[i].state[j].line[1] \in FrameLines

C3_LazyEviction == [](C3_Rendered) /\ [][C3_Step]_vars

\* a finished Item is still there after a later event for the other Provider
\* and after a render that found the inbox empty
C3_Witness ==
    /\ outcome = "empty"
    /\ \E i \in 1..Len(active) :
          /\ FinishedAt(active[i].state) # {}
          /\ \E q \in Ids : lastRecv[q] > lastRecv[active[i].id]

\* the items of the provider with the given id, none when it does not exist
ItemsOf(providers, id) ==
    IF \E i \in 1..Len(providers) : providers[i].id = id
    THEN (CHOOSE q \in {providers[i] : i \in 1..Len(providers)} : q.id = id).state
    ELSE <<>>

HasProvider(providers, id) == \E i \in 1..Len(providers) : providers[i].id = id

\* the first position of an item with the token in a sequence, 0 when none
FirstWith(state, token) ==
    IF \E j \in 1..Len(state) : state[j].token = token
    THEN CHOOSE j \in 1..Len(state) :
            /\ state[j].token = token
            /\ \A k \in 1..(j - 1) : state[k].token # token
    ELSE 0

\* ------------------------------------------------------------------------
\* C4 (as amended): once create(1,"a"), Begin{"Build", none, 0} and
\* End{none} have been applied, provider 1 holds one Item for "a", finished,
\* whose line is "[a] Build" (the title set by Begin is kept by End); the
\* Item and its line stay through later renders; once one more event for
\* provider 1 has been applied, provider 1 holds no finished Item and no
\* Item with a title or a line.
\* ------------------------------------------------------------------------
C4_After(line) ==
    /\ scen = 3 =>
         /\ ItemsOf(active, 1) = << [token |-> TokString("a"), title |-> <<"Build">>,
                                     line |-> <<line>>, finished |-> TRUE] >>
         /\ line \in FrameLines
    /\ scen = 4 =>
         /\ HasProvider(active, 1)
         /\ Len(ItemsOf(active, 1)) <= 1
         /\ \A j \in 1..Len(ItemsOf(active, 1)) :
              LET item == ItemsOf(active, 1)[j] IN
              ~item.finished /\ item.title = <<>> /\ item.line = <<>>

C4_FinishThenEvict == C4_After("[a] Build")

\* C4 as stated: the line of the finished Item is "[a]"
C4_AsStated == C4_After("[a]")

\* the three events were applied, the Item was seen finished, and a fourth
\* event for provider 1 has evicted it
C4_Witness == scen = 4

\* ------------------------------------------------------------------------
\* C5 (as amended): draining a Started event whose token matches no Item of
\* the addressed Provider takes the message out of the inbox, creates no
\* Item and modifies none: every other Provider is unchanged, the addressed
\* Provider keeps exactly its unfinished Items, unchanged and in order (its
\* finished Items are evicted), and when no Provider had the id an empty one
\* is appended.
\* ------------------------------------------------------------------------
UnmatchedStarted(m) ==
    /\ m.progress.tag = "Started"
    /\ \A j \in 1..Len(ItemsOf(active, m.id)) : ItemsOf(active, m.id)[j].token # m.token

C5_Step ==
    (inbox # <<>> /\ Received(Head(inbox)) /\ UnmatchedStarted(Head(inbox))) =>
        LET m == Head(inbox) IN
        /\ inbox' = Tail(inbox)
        /\ IF HasProvider(active, m.id)
           THEN /\ Len(active') = Len(active)
                /\ \A i \in 1..Len(active) :
                     active'[i] = IF active[i].id = m.id
                                  THEN [id |-> m.id, state |-> Unfinished(active[i].state)]
                                  ELSE active[i]
           ELSE active' = Append(active, [id |-> m.id, state |-> <<>>])

C5_UnmatchedStarted == [][C5_Step]_vars

\* C5 as stated: the providers and their items are the same after the drain
C5_AsStatedStep ==
    (inbox # <<>> /\ Received(Head(inbox)) /\ UnmatchedStarted(Head(inbox))) =>
        /\ inbox' = Tail(inbox)
        /\ active' = active

C5_AsStated == [][C5_AsStatedStep]_vars

\* the first event ever applied was a Started one: it was dropped, and it
\* left an empty Provider behind
C5_Witness ==
    /\ outcome = "unregistered"
    /\ nrecv = 1
    /\ Len(active) = 1
    /\ active[1].state = <<>>

\* ------------------------------------------------------------------------
\* C6: draining a Started event never adds an Item to any Provider; when
\* its token matches no Item of the addressed Provider, every Provider's
\* Items afterwards are Items it had before, with the same fields; and
\* when the addressed Provider did not exist it has zero Items afterwards.
\* ------------------------------------------------------------------------
C6_Step ==
    (inbox # <<>> /\ Received(Head(inbox)) /\ Head(inbox).progress.tag = "Started") =>
        LET m == Head(inbox) IN
        /\ Len(active') >= Len(active)
        /\ \A i \in 1..Len(active') :
             Len(active'[i].state) <= (IF i <= Len(active) THEN Len(active[i].state) ELSE 0)
        /\ UnmatchedStarted(m) =>
             \A i \in 1..Len(active) :
                 active'[i].state \in {active[i].state, Unfinished(active[i].state)}
        /\ ~HasProvider(active, m.id) =>
             HasProvider(active', m.id) /\ ItemsOf(active', m.id) = <<>>

C6_StartedNeverCreates == [][C6_Step]_vars

\* a Started event for a token the Provider does not hold was dropped while
\* the Provider held an Item for another token
C6_Witness ==
    /\ outcome = "unregistered"
    /\ \E i \in 1..Len(active) :
          /\ lastRecv[active[i].id] = nrecv
          /\ active[i].state # <<>>

\* ------------------------------------------------------------------------
\* C7: a send after the widget has been dropped does not crash the process.
\* ------------------------------------------------------------------------
C7_NoCrash == ~panicked

\* ------------------------------------------------------------------------
\* C8: the ids of the Providers are pairwise distinct; a Provider with an
\* id exists exactly when an event with that id has been received; the
\* collection grows only by one Provider at its end, exactly on the first
\* received event of an id.
\* ------------------------------------------------------------------------
C8_Inv ==
    /\ \A i, j \in 1..Len(active) : active[i].id = active[j].id => i = j
    /\ \A id \in Ids : HasProvider(active, id) <=> lastRecv[id] > 0

C8_Step ==
    /\ Len(active') >= Len(active)
    /\ \A i \in 1..Len(active) : active'[i].id = active[i].id
    /\ \A id \in Ids :
         (lastRecv[id] = 0 /\ lastRecv'[id] > 0) <=>
            (Len(active') = Len(active) + 1 /\ active'[Len(active')].id = id)
    /\ Len(active') <= Len(active) + 1

C8_UniqueLazyProviders == [](C8_Inv) /\ [][C8_Step]_vars

\* both Providers exist, and a further event for one of them added none
C8_Witness ==
    /\ Len(active) = 2
    /\ nrecv = 3

\* ------------------------------------------------------------------------
\* C9: draining a Created event leaves the addressed Provider with its
\* unfinished Items followed by one new Item {token, no title, no line,
\* not finished}, whether or not an Item with that token is already there
\* (so two unfinished Items with one token can coexist: C9_Witness).
\* ------------------------------------------------------------------------
C9_Step ==
    (inbox # <<>> /\ Received(Head(inbox)) /\ Head(inbox).progress.tag = "Created") =>
        LET m == Head(inbox) IN
        /\ HasProvider(active', m.id)
        /\ ItemsOf(active', m.id) =
             Append(Unfinished(ItemsOf(active, m.id)),
                    [token |-> m.token, title |-> <<>>, line |-> <<>>, finished |-> FALSE])

C9_CreatedAlwaysAppends == [][C9_Step]_vars

\* two unfinished Items with the same token in one Provider
C9_Witness ==
    \E i \in 1..Len(active) : \E j, k \in 1..Len(active[i].state) :
        /\ j < k
        /\ active[i].state[j].token = active[i].state[k].token
        /\ ~active[i].state[j].finished
        /\ ~active[i].state[k].finished

\* ------------------------------------------------------------------------
\* C10: when a Started event is applied to an Item, the token is kept, the
\* title becomes the event's title for Begin and is kept otherwise,
\* finished becomes true for End and is kept otherwise, and the line is the
\* Formatter's output for the token, the title after the update, the
\* event's message and the event's percentage (none for End).
\* ------------------------------------------------------------------------
C10_Step ==
    (/\ inbox # <<>>
     /\ Received(Head(inbox))
     /\ Head(inbox).progress.tag = "Started"
     /\ FirstWith(Unfinished(ItemsOf(active, Head(inbox).id)), Head(inbox).token) # 0) =>
        LET m == Head(inbox)
            w == m.progress.progress
            old == Unfinished(ItemsOf(active, m.id))
            j == FirstWith(old, m.token)
            new == ItemsOf(active', m.id)
        IN  /\ Len(new) = Len(old)
            /\ new[j].token = old[j].token
            /\ new[j].title = (IF w.kind = "Begin" THEN <<w.title>> ELSE old[j].title)
            /\ new[j].finished = (IF w.kind = "End" THEN TRUE ELSE old[j].finished)
            /\ new[j].line =
                 << format_progress(old[j].token, new[j].title, w.message,
                                    IF w.kind = "End" THEN <<>> ELSE w.percentage) >>

C10_ItemUpdate == [][C10_Step]_vars

\* a Report applied after a Begin: the title is kept and the line uses it
C10_Witness ==
    /\ outcome = "updated"
    /\ \E i \in 1..Len(active) : \E j \in 1..Len(active[i].state) :
          /\ active[i].state[j].title = <<"Build">>
          /\ active[i].state[j].line = <<"[a] Build - x">>
          /\ ~active[i].state[j].finished

\* ------------------------------------------------------------------------
\* C11: the frame holds, for the Providers from the last inserted to the
\* first, the header "id: <id>" followed by the lines of the Provider's
\* Items from the last inserted to the first, Items without a line left
\* out; a Provider with no line still has its header.
\* ------------------------------------------------------------------------
\* the positions of the Items of a Provider that have a line
LinedAt(state) == {j \in 1..Len(state) : state[j].line # <<>>}

\* the number of frame lines written before the header of Provider i
FrameOffset(providers, i) ==
    Cardinality((i + 1)..Len(providers))
      + Cardinality(UNION {{<<k, j>> : j \in LinedAt(providers[k].state)} :
                              k \in (i + 1)..Len(providers)})

C11_FrameIs(providers, lines) ==
    /\ Len(lines) = FrameOffset(providers, 0)
    /\ \A i \in 1..Len(providers) :
         LET off == FrameOffset(providers, i)
             state == providers[i].state
         IN  /\ lines[off + 1] = "id: " \o ToString(providers[i].id)
             /\ \A j \in LinedAt(state) :
                  \* the Items with a line inserted after j come first
                  lines[off + 1 + Cardinality({k \in LinedAt(state) : k >= j})]
                     = state[j].line[1]

C11_ReverseOrder == C11_FrameIs(active, frame)

\* Providers 1 and 2 created in that order, Provider 1 with an Item that has
\* no line: the frame is the header of 2, the line of its Item, the header of 1
C11_Witness ==
    /\ Len(active) = 2
    /\ active[1].id = 1
    /\ active[2].id = 2
    /\ frame = <<"id: 2", "[a] 0% Build", "id: 1">>
    /\ active[1].state # <<>>

\* ------------------------------------------------------------------------
\* C12: the line the Formatter gives is the token in square brackets, then
\* " percentage%" when there is a percentage, then " title" when there is a
\* title, then the message when there is one, after " - " when there is a
\* title and after a space when there is none; for token t1, title
\* Indexing, no message and percentage 42 it is "[t1] 42% Indexing".
\* ------------------------------------------------------------------------
C12_Table(token, title, msg, percentage) ==
    "[" \o (IF token.kind = "String" THEN token.v ELSE ToString(token.v)) \o "]"
        \o (IF percentage # <<>> THEN " " \o ToString(percentage[1]) \o "%" ELSE "")
        \o (IF title # <<>> THEN " " \o title[1] ELSE "")
        \o (IF msg # <<>> THEN (IF title # <<>> THEN " - " ELSE " ") \o msg[1] ELSE "")

C12_Step ==
    (/\ inbox # <<>>
     /\ Received(Head(inbox))
     /\ Head(inbox).progress.tag = "Started"
     /\ FirstWith(Unfinished(ItemsOf(active, Head(inbox).id)), Head(inbox).token) # 0) =>
        LET m == Head(inbox)
            w == m.progress.progress
            old == Unfinished(ItemsOf(active, m.id))
            j == FirstWith(old, m.token)
            new == ItemsOf(active', m.id)
        IN  /\ Len(new) = Len(old)
            /\ new[j].line =
                 << C12_Table(m.token,
                              IF w.kind = "Begin" THEN <<w.title>> ELSE old[j].title,
                              w.message,
                              IF w.kind = "End" THEN <<>> ELSE w.percentage) >>

C12_Example ==
    \A i \in 1..Len(active) : \A j \in 1..Len(active[i].state) :
        LET item == active[i].state[j] IN
        item.line # <<>> =>
            \E m \in FmtMessages \cup {Some("x")}, p \in FmtPercentages \cup {Some(0)} :
                item.line[1] = C12_Table(item.token, item.title, m, p)

C12_FormatTable == [](C12_Example) /\ [][C12_Step]_vars

\* token t1, title Indexing, no message, percentage 42
C12_Witness ==
    /\ outcome = "updated"
    /\ ItemsOf(active, 1) # <<>>
    /\ ItemsOf(active, 1)[1].line = <<"[t1] 42% Indexing">>

\* ------------------------------------------------------------------------
\* C13: when a Provider holds nothing but the Item a create has just made
\* for token t, applying update(t, Begin{title, message, percentage}) leaves
\* it with exactly one Item: token t, the Begin's title, not finished, and
\* the Formatter's line for them; after create(1,"a") and Begin{"Build",
\* none, 0}, the only events of provider 1, that line is "[a] 0% Build".
\* ------------------------------------------------------------------------
C13_Example ==
    scen = 2 =>
        ItemsOf(active, 1) = << [token |-> TokString("a"), title |-> <<"Build">>,
                                 line |-> <<"[a] 0% Build">>, finished |-> FALSE] >>

C13_Step ==
    (/\ inbox # <<>>
     /\ Received(Head(inbox))
     /\ Head(inbox).progress.tag = "Started"
     /\ Head(inbox).progress.progress.kind = "Begin"
     /\ ItemsOf(active, Head(inbox).id) =
          << [token |-> Head(inbox).token, title |-> <<>>, line |-> <<>>,
              finished |-> FALSE] >>) =>
        LET m == Head(inbox)
            w == m.progress.progress
        IN  ItemsOf(active', m.id) =
              << [token |-> m.token,
                  title |-> <<w.title>>,
                  line |-> << C12_Table(m.token, <<w.title>>, w.message, w.percentage) >>,
                  finished |-> FALSE] >>

C13_CreateThenBegin == [](C13_Example) /\ [][C13_Step]_vars

\* create(1,"a") and the Begin were the first two events of provider 1, and
\* the Begin has just been applied
C13_Witness ==
    /\ scen = 2
    /\ outcome = "updated"
    /\ lastRecv[1] = nrecv

\* ------------------------------------------------------------------------
\* C14: while the widget lives, every call of create, update and
\* end_progress can be taken, for every id, token and payload, however many
\* messages are pending and whether or not any was ever received (up to the
\* bounds of the model); a call adds exactly one message at the end of the
\* inbox and leaves the Providers, their Items and the frame as they are.
\* ------------------------------------------------------------------------
C14_Enabled ==
    (rxAlive /\ nsent < MaxSends /\ Len(inbox) < MaxInbox) =>
        \A id \in Ids, token \in Tokens :
            /\ ENABLED SendUnwrap(id, token, Created)
            /\ \A status \in Statuses \cup LastMessages :
                 ENABLED SendUnwrap(id, token, Started(status))

C14_Step ==
    nsent' # nsent =>
        /\ nsent' = nsent + 1
        /\ Len(inbox') = Len(inbox) + 1
        /\ SubSeq(inbox', 1, Len(inbox)) = inbox
        /\ inbox'[Len(inbox')].seq = nsent'
        /\ UNCHANGED <<active, frame, outcome, nrecv>>

C15_Step ==
    (RenderStep /\ inbox # <<>>) =>
        /\ Len(inbox') = Len(inbox) - 1
        /\ nrecv' = nrecv + 1

C15_Pending == rxAlive /\ nrecv < nsent

C15_BacklogDrains ==
    /\ [][C15_Step]_vars
    /\ C15_Pending ~> ~C15_Pending

\* every message of a full run was sent and received, the last two of them
\* one render after the other
C15_Witness ==
    /\ rxAlive
    /\ nsent = MaxSends
    /\ nrecv = nsent
    /\ inbox = <<>>
    /\ outcome # "empty"

\* ------------------------------------------------------------------------
\* C16: every Provider holds at most one finished Item.
\* ------------------------------------------------------------------------
C16_AtMostOneFinished ==
    \A i \in 1..Len(active) : Cardinality(FinishedAt(active[i].state)) <= 1

\* a Provider that holds a finished Item next to an unfinished one, the End
\* being the fourth event received
C16_Witness ==
    \E i \in 1..Len(active) :
        /\ Cardinality(FinishedAt(active[i].state)) = 1
        /\ Len(active[i].state) = 2
        /\ nrecv = 4
        /\ lastRecv[active[i].id] = 4

\* ------------------------------------------------------------------------
\* C17 (as amended): a finished Item is never modified: a step that applies
\* no event to its Provider leaves the Provider's Items as they are, and an
\* event for its Provider evicts it before anything else, so no Item goes
\* from finished to unfinished and no finished Item changes its line.  A
\* Started event for the token of a finished Item is dropped when no
\* unfinished Item of the Provider has that token; when one has, the event
\* is applied to the first such Item.
\* ------------------------------------------------------------------------
\* the finished Items of the Provider addressed by m include one with m's token
C17_ForFinished(m) ==
    /\ m.progress.tag = "Started"
    /\ \E j \in FinishedAt(ItemsOf(active, m.id)) : ItemsOf(active, m.id)[j].token = m.token

C17_Frame ==
    \A i \in 1..Len(active) :
        FinishedAt(active[i].state) # {} =>
            /\ i <= Len(active')
            /\ IF Hit(active[i].id)
               THEN \* what is left are the Items that were not finished
                    LET kept == Unfinished(active[i].state)
                        new == active'[i].state
                    IN  /\ Len(new) \in {Len(kept), Len(kept) + 1}
                        /\ \A k \in 1..Len(kept) : new[k].token = kept[k].token
                        /\ Len(new) = Len(kept) + 1 => new[Len(new)].line = <<>>
               ELSE active'[i] = active[i]

C17_Step ==
    (inbox # <<>> /\ Received(Head(inbox)) /\ C17_ForFinished(Head(inbox))) =>
        LET m == Head(inbox)
            kept == Unfinished(ItemsOf(active, m.id))
            new == ItemsOf(active', m.id)
            j == FirstWith(kept, m.token)
        IN  /\ Len(new) = Len(kept)
            /\ \A k \in 1..Len(kept) : k # j => new[k] = kept[k]
            /\ IF j = 0
               THEN outcome' = "unregistered"
               ELSE /\ outcome' = "updated"
                    /\ new[j].token = kept[j].token
                    /\ new[j].line # <<>>

C17_FinishedIsFinal == [][C17_Frame /\ C17_Step]_vars

\* C17 as stated: a Started event for the token of a finished Item is dropped
C17_AsStatedStep ==
    (inbox # <<>> /\ Received(Head(inbox)) /\ C17_ForFinished(Head(inbox))) =>
        /\ outcome' = "unregistered"
        /\ ItemsOf(active', Head(inbox).id) = Unfinished(ItemsOf(active, Head(inbox).id))

C17_AsStated == [][C17_Frame /\ C17_AsStatedStep]_vars

\* create, Begin and End of token "a", then a Started event for provider 1:
\* the finished Item is gone and the event was dropped
C17_Witness ==
    /\ scen = 4
    /\ outcome = "unregistered"
    /\ ItemsOf(active, 1) = <<>>

\* ------------------------------------------------------------------------
\* C18: applying an event addressed to provider p removes no Provider and
\* keeps every Provider at its position, leaves every Provider with another
\* id exactly as it was, and keeps the Items of p that are not evicted in
\* their order, at most one of them changed.
\* ------------------------------------------------------------------------
C18_Step ==
    (inbox # <<>> /\ Received(Head(inbox))) =>
        LET m == Head(inbox) IN
        /\ Len(active') >= Len(active)
        /\ \A i \in 1..Len(active) :
             /\ active'[i].id = active[i].id
             /\ IF active[i].id # m.id
                THEN active'[i] = active[i]
                ELSE LET kept == Unfinished(active[i].state)
                         new == active'[i].state
                     IN  /\ Len(new) >= Len(kept)
                         /\ \A k \in 1..Len(kept) : new[k].token = kept[k].token
                         /\ Cardinality({k \in 1..Len(kept) : new[k] # kept[k]}) <= 1

C18_OthersUntouched == [][C18_Step]_vars

\* the last event went to the first of two Providers, which has kept its
\* place, while the second one holds Items
C18_Witness ==
    /\ Len(active) = 2
    /\ nrecv >= 3
    /\ lastRecv[active[1].id] = nrecv
    /\ active[2].state # <<>>
    /\ outcome \in {"created", "updated"}

\* ------------------------------------------------------------------------
\* C19: every Item with a title has a line, and an Item without a line has
\* no title and is not finished (it is as create made it); so every
\* finished Item has a line.
\* ------------------------------------------------------------------------
C19_LineInvariant ==
    \A i \in 1..Len(active) : \A j \in 1..Len(active[i].state) :
        LET item == active[i].state[j] IN
        /\ item.title # <<>> => item.line # <<>>
        /\ item.line = <<>> => (item.title = <<>> /\ ~item.finished)
        /\ item.finished => item.line # <<>>

\* an Item finished by an End that no Begin preceded: a line and no title,
\* next to an Item that has had no event since its create
C19_Witness ==
    \E i \in 1..Len(active) : \E j, k \in 1..Len(active[i].state) :
        /\ active[i].state[j].finished
        /\ active[i].state[j].title = <<>>
        /\ active[i].state[j].line # <<>>
        /\ active[i].state[k].line = <<>>

\* ------------------------------------------------------------------------
\* C20: a Started event is applied to the earliest Item with its token
\* among the Items of its Provider that are not evicted, and to no other:
\* every other Item that stays, with the same token or with another, is
\* exactly as it was, and no Item is added.
\* ------------------------------------------------------------------------
C20_Step ==
    (inbox # <<>> /\ Received(Head(inbox)) /\ Head(inbox).progress.tag = "Started") =>
        LET m == Head(inbox)
            kept == Unfinished(ItemsOf(active, m.id))
            new == ItemsOf(active', m.id)
            j == FirstWith(kept, m.token)
        IN  /\ Len(new) = Len(kept)
            /\ \A k \in 1..Len(kept) : k # j => new[k] = kept[k]
            /\ j # 0 =>
                 /\ new[j].token = m.token
                 /\ new[j].line # <<>>
                 /\ new[j].finished = (m.progress.progress.kind = "End")

C20_EarliestOnly == [][C20_Step]_vars

\* a Provider whose first two Items have the same token, the first one with
\* the title and line of a Begin, the second one as create made it, every
\* message sent having been received
C20_Witness ==
    /\ nrecv = nsent
    /\ outcome = "updated"
    /\ \E i \in 1..Len(active) :
        /\ Len(active[i].state) >= 2
        /\ active[i].state[1].token = active[i].state[2].token
        /\ active[i].state[1].title = Some("Build")
        /\ ~active[i].state[1].finished
        /\ active[i].state[2].line = <<>>
====
